---- MODULE Spec2Model ----
(***************************************************************************)
(* CANsniffer: the decode library (decoder.py) and the ingestion pipeline  *)
(* (V3.py: transports -> queue -> update_loop -> parse_frame -> stats).    *)
(*                                                                         *)
(* Text that the program parses (lines, tokens) is a sequence of           *)
(* one-character strings, so that replace/split/int(x, 16) are computed    *)
(* character by character.  Text that the program produces (signal names,  *)
(* formatted values, error messages) is a TLA+ string built with \o.       *)
(* Python indexes from 0, TLA+ sequences from 1: data[k] is d[k + 1].      *)
(***************************************************************************)
EXTENDS Integers, Sequences, FiniteSets, Bags, TLC

(***************************************************************************)
(* Python integer primitives used by decoder.py                            *)
(***************************************************************************)

RECURSIVE AndNN(_, _)
\* x & y for x, y >= 0
AndNN(x, y) ==
    IF x = 0 \/ y = 0 THEN 0
    ELSE ((x % 2) * (y % 2)) + 2 * AndNN(x \div 2, y \div 2)

RECURSIVE OrNN(_, _)
\* x | y for x, y >= 0
OrNN(x, y) ==
    IF x = 0 THEN y
    ELSE IF y = 0 THEN x
    ELSE (IF (x % 2) + (y % 2) > 0 THEN 1 ELSE 0) + 2 * OrNN(x \div 2, y \div 2)

\* x & y on Python's unbounded two's-complement integers
BitAnd(x, y) ==
    IF x >= 0 /\ y >= 0 THEN AndNN(x, y)
    ELSE IF x >= 0 THEN x - AndNN(x, (-y) - 1)
    ELSE IF y >= 0 THEN y - AndNN(y, (-x) - 1)
    ELSE (-OrNN((-x) - 1, (-y) - 1)) - 1

\* x | y on Python's unbounded two's-complement integers
BitOr(x, y) ==
    IF x >= 0 /\ y >= 0 THEN OrNN(x, y)
    ELSE (-BitAnd((-x) - 1, (-y) - 1)) - 1

\* x << n
Shl(x, n) == x * (2 ^ n)

HexLower == <<"0", "1", "2", "3", "4", "5", "6", "7", "8", "9", "a", "b", "c", "d", "e", "f">>

HexUpper == <<"0", "1", "2", "3", "4", "5", "6", "7", "8", "9", "A", "B", "C", "D", "E", "F">>

IsHexDigit(c) == \E i \in 1..16 : HexLower[i] = c \/ HexUpper[i] = c

HexDigitValue(c) == (CHOOSE i \in 1..16 : HexLower[i] = c \/ HexUpper[i] = c) - 1

RECURSIVE HexNat(_)
\* hex(n)[2:] for n >= 0: lower-case digits, no padding
HexNat(n) ==
    IF n < 16 THEN HexLower[n + 1] ELSE HexNat(n \div 16) \o HexLower[(n % 16) + 1]

\* hex(n)
PyHex(n) == IF n < 0 THEN "-0x" \o HexNat(-n) ELSE "0x" \o HexNat(n)

RECURSIVE DecNat(_)
\* str(n) for n >= 0
DecNat(n) ==
    IF n < 10 THEN HexLower[n + 1] ELSE DecNat(n \div 10) \o HexLower[(n % 10) + 1]

(***************************************************************************)
(* int(s, 16): optional sign, optional 0x / 0X prefix, then hex digits in  *)
(* either case, single underscores allowed between digits and right after  *)
(* the prefix.  Tokens come out of str.split(), so they hold no            *)
(* whitespace.  The result is [ok, v]; ok = FALSE stands for ValueError.   *)
(* int(s) is the same in base 10, where a prefix is not accepted.          *)
(***************************************************************************)

Drop(s, n) == SubSeq(s, n + 1, Len(s))

HasSign(s) == Len(s) >= 1 /\ s[1] \in {"+", "-"}

HasPrefix(s) == Len(s) >= 2 /\ s[1] = "0" /\ s[2] \in {"x", "X"}

ValidDigits(s, lead) ==
    /\ Len(s) >= 1
    /\ \A i \in 1..Len(s) : IsHexDigit(s[i]) \/ s[i] = "_"
    /\ s[Len(s)] /= "_"
    /\ (s[1] = "_" => lead)
    /\ \A i \in 1..(Len(s) - 1) : ~(s[i] = "_" /\ s[i + 1] = "_")

RECURSIVE DigitsValue(_, _, _)
DigitsValue(s, acc, base) ==
    IF s = <<>> THEN acc
    ELSE IF s[1] = "_" THEN DigitsValue(Tail(s), acc, base)
    ELSE DigitsValue(Tail(s), (base * acc) + HexDigitValue(s[1]), base)

\* int(s): base 10, no prefix
PyInt10(s) ==
    LET neg    == HasSign(s) /\ s[1] = "-"
        digits == IF HasSign(s) THEN Tail(s) ELSE s
        dec10  == \A i \in 1..Len(digits) : digits[i] = "_" \/ (IsHexDigit(digits[i]) /\ HexDigitValue(digits[i]) < 10)
    IN  IF ValidDigits(digits, FALSE) /\ dec10
        THEN [ok |-> TRUE, v |-> IF neg THEN -DigitsValue(digits, 0, 10) ELSE DigitsValue(digits, 0, 10)]
        ELSE [ok |-> FALSE, v |-> 0]

\* int(s, 16)
PyInt16(s) ==
    LET neg    == HasSign(s) /\ s[1] = "-"
        s1     == IF HasSign(s) THEN Tail(s) ELSE s
        pre    == HasPrefix(s1)
        digits == IF pre THEN Drop(s1, 2) ELSE s1
    IN  IF ValidDigits(digits, pre)
        THEN [ok |-> TRUE, v |-> IF neg THEN -DigitsValue(digits, 0, 16) ELSE DigitsValue(digits, 0, 16)]
        ELSE [ok |-> FALSE, v |-> 0]

(***************************************************************************)
(* decoder.py section 1: helper functions                                  *)
(***************************************************************************)

parse_le_int16(data, offset) ==
    IF Len(data) < offset + 2 THEN 0
    ELSE LET raw == BitOr(data[offset + 1], Shl(data[offset + 2], 8))
         IN  IF raw > 32767 THEN raw - 65536 ELSE raw

\* parse_be_int16 without the two's-complement adjustment
parse_be_int16_unsigned(data, offset) ==
    IF Len(data) < offset + 2 THEN 0
    ELSE BitOr(Shl(data[offset + 1], 8), data[offset + 2])

parse_be_int16(data, offset) ==
    IF Len(data) < offset + 2 THEN 0
    ELSE LET raw == BitOr(Shl(data[offset + 1], 8), data[offset + 2])
         IN  IF raw > 32767 THEN raw - 65536 ELSE raw

(***************************************************************************)
(* A 40-bit quantity does not fit the checker's 32-bit integers: it is     *)
(* held as two limbs, value = hi * 2^20 + lo with 0 <= lo < 2^20 and hi    *)
(* signed (the floor decomposition, which is two's complement).            *)
(***************************************************************************)

Limb == 2 ^ 20

Big(hi, lo) == [hi |-> hi, lo |-> lo]

\* x << n as a two-limb number, for n in {0, 8, 16, 24, 32}
BigShl(x, n) ==
    CASE n = 32 -> Big(x * 4096, 0)
      [] n = 24 -> Big(x * 16, 0)
      [] n = 16 -> Big(x \div 16, (x % 16) * 65536)
      [] n = 8  -> Big(x \div 4096, (x % 4096) * 256)
      [] n = 0  -> Big(x \div Limb, x % Limb)

BigOr(a, b) == Big(BitOr(a.hi, b.hi), OrNN(a.lo, b.lo))

BigNeg(a) == IF a.lo = 0 THEN Big(-a.hi, 0) ELSE Big((-a.hi) - 1, Limb - a.lo)

BigIsNeg(a) == a.hi < 0

BigZero == Big(0, 0)

\* parse_ivt_int40 reading bytes 0-4 instead of skipping byte 0
parse_ivt_int40_from0(data) ==
    IF Len(data) < 6 THEN BigZero
    ELSE LET raw == BigOr(BigOr(BigOr(BigOr(BigShl(data[1], 32), BigShl(data[2], 24)),
                                      BigShl(data[3], 16)), BigShl(data[4], 8)),
                          BigShl(data[5], 0))
         IN  IF (raw.hi \div (2 ^ 19)) % 2 = 1 THEN Big(raw.hi - Limb, raw.lo) ELSE raw

parse_ivt_int40(data) ==
    IF Len(data) < 6 THEN BigZero
    ELSE LET raw == BigOr(BigOr(BigOr(BigOr(BigShl(data[2], 32), BigShl(data[3], 24)),
                                      BigShl(data[4], 16)), BigShl(data[5], 8)),
                          BigShl(data[6], 0))
         IN  \* raw & 0x8000000000 tests bit 39, which is bit 19 of the high limb
             IF (raw.hi \div (2 ^ 19)) % 2 = 1 THEN Big(raw.hi - Limb, raw.lo) ELSE raw

\* a + 1 on two-limb numbers
BigInc(a) == IF a.lo + 1 = Limb THEN Big(a.hi + 1, 0) ELSE Big(a.hi, a.lo + 1)

\* a // 10 and a % 10 for a >= 0, by long division over the limbs
BigDiv10(a) == Big(a.hi \div 10, (((a.hi % 10) * Limb) + a.lo) \div 10)

BigMod10(a) == (((a.hi % 10) * Limb) + a.lo) % 10

RECURSIVE DecBig(_)
\* str(a) for a >= 0
DecBig(a) ==
    IF a.hi = 0 THEN DecNat(a.lo) ELSE DecBig(BigDiv10(a)) \o HexLower[BigMod10(a) + 1]

(***************************************************************************)
(* Values of a signal mapping.  A float is held as the exact rational the  *)
(* product stands for: raw * 0.1 is VFloat(raw, 10).                       *)
(***************************************************************************)

VFloat(num, den) == [t |-> "float", num |-> num, den |-> den]

VBigFloat(big) == [t |-> "bigfloat", big |-> big]

VInt(i) == [t |-> "int", i |-> i]

VBool(b) == [t |-> "bool", b |-> b]

VText(s) == [t |-> "text", s |-> s]

Sig(name, val) == [name |-> name, val |-> val]

\* a routine returns a dict (an ordered list of signals) ...
Map(sigs) == [kind |-> "map", sigs |-> sigs]

\* ... or leaves by an exception
Raise(exc, msg) == [kind |-> "raise", exc |-> exc, msg |-> msg]

(***************************************************************************)
(* f"{raw * 0.001:.2f}" and f"{raw * 1.0:.1f}".  The product raw * 0.001   *)
(* is within one part in 2^52 of raw / 1000, so the two-decimal rounding   *)
(* is that of raw / 1000 unless raw ends in the digit 5: there the binary  *)
(* rounding of the product decides, which the model leaves open (up says   *)
(* which neighbour is taken).                                              *)
(***************************************************************************)

Fmt2Milli(raw, up) ==
    LET neg  == BigIsNeg(raw)
        m    == IF neg THEN BigNeg(raw) ELSE raw
        q    == BigDiv10(m)
        r    == BigMod10(m)
        h    == IF r > 5 \/ (r = 5 /\ up) THEN BigInc(q) ELSE q
        int  == BigDiv10(BigDiv10(h))
        d1   == BigMod10(BigDiv10(h))
        d2   == BigMod10(h)
    IN  (IF neg THEN "-" ELSE "") \o DecBig(int) \o "." \o HexLower[d1 + 1] \o HexLower[d2 + 1]

Fmt1Unit(raw) ==
    LET neg == BigIsNeg(raw)
        m   == IF neg THEN BigNeg(raw) ELSE raw
    IN  (IF neg THEN "-" ELSE "") \o DecBig(m) \o ".0"

(***************************************************************************)
(* decoder.py section 2: decoding logic                                    *)
(***************************************************************************)

IndexError == Raise("IndexError", "list index out of range")

\* decode_inverter_multiplexed rejecting a selector it does not know
decode_inverter_multiplexed_strict(data) ==
    IF Len(data) < 3 THEN Map(<<Sig("Error", VText("Len<3"))>>)
    ELSE LET mux_id  == data[1]
             raw_val == parse_le_int16(data, 1)
         IN  IF mux_id = 48 THEN Map(<<Sig("RPM", VFloat(raw_val, 1))>>)
             ELSE IF mux_id = 235 THEN Map(<<Sig("DC Bus", VFloat(raw_val, 10))>>)
             ELSE IF mux_id = 32 THEN Map(<<Sig("Inv Current", VFloat(raw_val, 10))>>)
             ELSE IF mux_id = 73 THEN Map(<<Sig("Motor Temp", VFloat(raw_val, 1))>>)
             ELSE IF mux_id = 74 THEN Map(<<Sig("IGBT Temp", VFloat(raw_val, 1))>>)
             ELSE Map(<<Sig("Error", VText("Mux"))>>)

decode_inverter_multiplexed(data) ==
    IF Len(data) < 3 THEN Map(<<Sig("Error", VText("Len<3"))>>)
    ELSE LET mux_id  == data[1]
             raw_val == parse_le_int16(data, 1)
         IN  IF mux_id = 48 THEN Map(<<Sig("RPM", VFloat(raw_val, 1))>>)                \* 0x30
             ELSE IF mux_id = 235 THEN Map(<<Sig("DC Bus", VFloat(raw_val, 10))>>)      \* 0xEB
             ELSE IF mux_id = 32 THEN Map(<<Sig("Inv Current", VFloat(raw_val, 10))>>)  \* 0x20
             ELSE IF mux_id = 73 THEN Map(<<Sig("Motor Temp", VFloat(raw_val, 1))>>)    \* 0x49
             ELSE IF mux_id = 74 THEN Map(<<Sig("IGBT Temp", VFloat(raw_val, 1))>>)     \* 0x4A
             ELSE Map(<<Sig("Mux " \o PyHex(mux_id), VInt(raw_val))>>)

decode_inverter_igbt_temp(data) ==
    Map(<<Sig("IGBT Temp (L)", VFloat(parse_le_int16(data, 1), 1))>>)

decode_torque_command(data) ==
    Map(<<Sig("Torque Cmd", VInt(parse_le_int16(data, 1)))>>)

decode_ui_voltages(data) ==
    Map(<<Sig("UI V1", VFloat(parse_be_int16(data, 2), 100)),
          Sig("UI V2", VFloat(parse_be_int16(data, 4), 100)),
          Sig("UI V3", VFloat(parse_be_int16(data, 6), 100))>>)

decode_ui_temperatures(data) ==
    IF Len(data) < 7 THEN Map(<<Sig("Error", VText("Short"))>>)
    ELSE Map(<<Sig("UI T1", VInt(data[3])), Sig("UI T2", VInt(data[4])), Sig("UI T3", VInt(data[5]))>>)

decode_ivt_current(d, up) ==
    Map(<<Sig("Current", VText(Fmt2Milli(parse_ivt_int40(d), up) \o " A"))>>)

decode_ivt_voltage_vehicle(d, up) ==
    Map(<<Sig("Volts Veh", VText(Fmt2Milli(parse_ivt_int40(d), up) \o " V"))>>)

decode_ivt_voltage_pack(d, up) ==
    Map(<<Sig("Volts Pack", VText(Fmt2Milli(parse_ivt_int40(d), up) \o " V"))>>)

decode_ivt_wattage(d) ==
    Map(<<Sig("Power", VText(Fmt1Unit(parse_ivt_int40(d)) \o " W"))>>)

decode_ivt_current_counter(d) == Map(<<Sig("Ah", VBigFloat(parse_ivt_int40(d)))>>)

decode_ivt_wattage_counter(d) == Map(<<Sig("Wh", VBigFloat(parse_ivt_int40(d)))>>)

RECURSIVE BytesHex(_)
\* bytes(data).hex() for bytes in range(256): two lower-case digits each
BytesHex(data) ==
    IF data = <<>> THEN ""
    ELSE HexLower[(data[1] \div 16) + 1] \o HexLower[(data[1] % 16) + 1] \o BytesHex(Tail(data))

\* bytes(data) raises ValueError unless every element is in range(256)
BytesOk(data) == \A i \in 1..Len(data) : data[i] \in 0..255

BytesError == Raise("ValueError", "bytes must be in range(0, 256)")

decode_acu_info_1(data) ==
    IF BytesOk(data) THEN Map(<<Sig("ACU Info 1", VText(BytesHex(data)))>>) ELSE BytesError

decode_acu_info_2(data) ==
    IF BytesOk(data) THEN Map(<<Sig("ACU Info 2", VText(BytesHex(data)))>>) ELSE BytesError

decode_acu_precharge(data) ==
    IF Len(data) < 1 THEN IndexError ELSE Map(<<Sig("Precharge", VInt(data[1]))>>)

decode_vcu_connected(data) ==
    IF Len(data) < 1 THEN IndexError ELSE Map(<<Sig("VCU", VBool(data[1] /= 0))>>)

decode_vcu_reply(data) ==
    IF Len(data) < 1 THEN IndexError ELSE Map(<<Sig("VCU Reply", VBool(data[1] /= 0))>>)
(***************************************************************************)
(* decoder.py section 3: registry and class DataDecoder                    *)
(***************************************************************************)

CAN_ID_NAMES ==
    (385  :> "Inverter Status (Mux)") @@   \* 0x181
    (901  :> "Inverter IGBT Temp") @@      \* 0x385
    (513  :> "Torque Command") @@          \* 0x201
    (1792 :> "UI Voltages") @@             \* 0x700
    (1793 :> "UI Temps") @@                \* 0x701
    (1313 :> "IVT Current") @@             \* 0x521
    (1314 :> "IVT Voltage Veh") @@         \* 0x522
    (1315 :> "IVT Voltage Pack") @@        \* 0x523
    (256  :> "ACU Control")                \* 0x100

DECODER_MAP ==
    (385  :> "decode_inverter_multiplexed") @@  \* 0x181
    (901  :> "decode_inverter_igbt_temp") @@    \* 0x385
    (513  :> "decode_torque_command") @@        \* 0x201
    (1792 :> "decode_ui_voltages") @@           \* 0x700
    (1793 :> "decode_ui_temperatures") @@       \* 0x701
    (261  :> "decode_acu_info_1") @@            \* 0x105
    (262  :> "decode_acu_info_2") @@            \* 0x106
    (256  :> "decode_acu_precharge") @@         \* 0x100
    (1313 :> "decode_ivt_current") @@           \* 0x521
    (1314 :> "decode_ivt_voltage_vehicle") @@   \* 0x522
    (1315 :> "decode_ivt_voltage_pack") @@      \* 0x523
    (1318 :> "decode_ivt_wattage") @@           \* 0x526
    (1319 :> "decode_ivt_current_counter") @@   \* 0x527
    (1320 :> "decode_ivt_wattage_counter") @@   \* 0x528
    (373  :> "decode_vcu_connected") @@         \* 0x175
    (374  :> "decode_vcu_reply")                \* 0x176

\* decoder_func(data_ints) for the routine the registry names
decoder_func(f, data, up) ==
    CASE f = "decode_inverter_multiplexed" -> decode_inverter_multiplexed(data)
      [] f = "decode_inverter_igbt_temp"   -> decode_inverter_igbt_temp(data)
      [] f = "decode_torque_command"       -> decode_torque_command(data)
      [] f = "decode_ui_voltages"          -> decode_ui_voltages(data)
      [] f = "decode_ui_temperatures"      -> decode_ui_temperatures(data)
      [] f = "decode_acu_info_1"           -> decode_acu_info_1(data)
      [] f = "decode_acu_info_2"           -> decode_acu_info_2(data)
      [] f = "decode_acu_precharge"        -> decode_acu_precharge(data)
      [] f = "decode_ivt_current"          -> decode_ivt_current(data, up)
      [] f = "decode_ivt_voltage_vehicle"  -> decode_ivt_voltage_vehicle(data, up)
      [] f = "decode_ivt_voltage_pack"     -> decode_ivt_voltage_pack(data, up)
      [] f = "decode_ivt_wattage"          -> decode_ivt_wattage(data)
      [] f = "decode_ivt_current_counter"  -> decode_ivt_current_counter(data)
      [] f = "decode_ivt_wattage_counter"  -> decode_ivt_wattage_counter(data)
      [] f = "decode_vcu_connected"        -> decode_vcu_connected(data)
      [] f = "decode_vcu_reply"            -> decode_vcu_reply(data)

RECURSIVE Str(_)
\* the text of a token, as a string
Str(tok) == IF tok = <<>> THEN "" ELSE tok[1] \o Str(Tail(tok))

\* the ValueError of int(tok, 16)
InvalidLiteral(tok) ==
    Raise("ValueError", "invalid literal for int() with base 16: '" \o Str(tok) \o "'")

NoDecoder == [kind |-> "nodecoder", s |-> "No Decoder"]

\* f"Err: {str(e)}"
ErrStr(e) == [kind |-> "err", s |-> "Err: " \o e.msg]

\* the body of decode's try block: a dict, "No Decoder", or an exception
decode_try(can_id_str, data_bytes_list, up) ==
    LET can_id == PyInt16(can_id_str)
        bad    == {i \in 1..Len(data_bytes_list) : ~PyInt16(data_bytes_list[i]).ok}
        first  == CHOOSE i \in bad : \A j \in bad : i <= j
        ints   == [i \in 1..Len(data_bytes_list) |-> PyInt16(data_bytes_list[i]).v]
    IN  IF ~can_id.ok THEN InvalidLiteral(can_id_str)
        ELSE IF bad /= {} THEN InvalidLiteral(data_bytes_list[first])
        ELSE IF can_id.v \in DOMAIN DECODER_MAP
             THEN decoder_func(DECODER_MAP[can_id.v], ints, up)
             ELSE NoDecoder

\* decode without its except clause: the exception leaves the call
decode_no_except(can_id_str, data_bytes_list, up) ==
    decode_try(can_id_str, data_bytes_list, up)

\* DataDecoder.decode: try ... except Exception as e: return f"Err: {str(e)}"
decode(can_id_str, data_bytes_list, up) ==
    LET r == decode_try(can_id_str, data_bytes_list, up)
    IN  IF r.kind = "raise" THEN ErrStr(r) ELSE r

\* DataDecoder.get_name
get_name(can_id_str) ==
    LET cid == PyInt16(can_id_str)
    IN  IF ~cid.ok THEN "Unknown"
        ELSE IF cid.v \in DOMAIN CAN_ID_NAMES THEN CAN_ID_NAMES[cid.v]
        ELSE "Unknown ID"
(***************************************************************************)
(* V3.py, CANsnifferUI.parse_frame: the line parser and the statistics     *)
(***************************************************************************)

\* line.replace(",", " ")
ReplaceCommas(s) == [i \in 1..Len(s) |-> IF s[i] = "," THEN " " ELSE s[i]]

IsPrefixAt(pat, s) == Len(s) >= Len(pat) /\ SubSeq(s, 1, Len(pat)) = pat

RECURSIVE Remove(_, _)
\* s.replace(pat, ""): the occurrences of pat, left to right, not overlapping
Remove(s, pat) ==
    IF s = <<>> THEN <<>>
    ELSE IF IsPrefixAt(pat, s) THEN Remove(Drop(s, Len(pat)), pat)
    ELSE <<s[1]>> \o Remove(Tail(s), pat)

IsSpace(c) == c \in {" ", "\t"}

RECURSIVE SplitFrom(_, _, _)
\* s.split(): the maximal runs of non-whitespace characters
SplitFrom(s, cur, acc) ==
    IF s = <<>> THEN (IF cur = <<>> THEN acc ELSE Append(acc, cur))
    ELSE IF IsSpace(s[1]) THEN SplitFrom(Tail(s), <<>>, IF cur = <<>> THEN acc ELSE Append(acc, cur))
    ELSE SplitFrom(Tail(s), Append(cur, s[1]), acc)

Split(s) == SplitFrom(s, <<>>, <<>>)

LabelId == <<"I", "D", ":">>

LabelData == <<"D", "A", "T", "A", ":">>

\* parts = line.replace(",", " ").replace("ID:", "").replace("DATA:", "").split()
Parts(line) == Split(Remove(Remove(ReplaceCommas(line), LabelId), LabelData))

\* cid = "0x" + parts[0] if not parts[0].startswith("0x") else parts[0]
Cid(tok) == IF IsPrefixAt(<<"0", "x">>, tok) THEN tok ELSE <<"0", "x">> \o tok

RECURSIVE JoinSp(_)
\* " ".join(data)
JoinSp(toks) ==
    IF toks = <<>> THEN <<>>
    ELSE IF Len(toks) = 1 THEN toks[1]
    ELSE toks[1] \o <<" ">> \o JoinSp(Tail(toks))

\* val_str: the signals joined as "name: value", or the string decode returned.
\* The rendering of a float is not computed: the text is held as its parts.
val_str(d) ==
    IF d.kind = "map" THEN [kind |-> "joined", items |-> d.sigs] ELSE [kind |-> "str", s |-> d.s]

(***************************************************************************)
(* Time is counted in half seconds.  f"{1.0 / dt:.1f} Hz" for dt = k half  *)
(* seconds is 2 / k to one decimal; 2 / 8 = 0.25 is exact in binary and is *)
(* printed 0.2 (half to even), every other k rounds to the nearest tenth.  *)
(***************************************************************************)

Fmt1Hz(k) ==
    LET tenths == IF k = 8 THEN 2 ELSE ((40 \div k) + 1) \div 2
    IN  DecNat(tenths \div 10) \o "." \o DecNat(tenths % 10) \o " Hz"

\* the count of cid with the time of the latest entry of any id
StatsGet_latest(st, cid, now) ==
    LET times == {st[k].t : k \in DOMAIN st}
    IN  [c |-> IF cid \in DOMAIN st THEN st[cid].c ELSE 0,
         t |-> IF times = {} THEN now ELSE CHOOSE x \in times : \A y \in times : y <= x]

\* self.stats.get(cid, {'c': 0, 't': now})
StatsGet(st, cid, now) == IF cid \in DOMAIN st THEN st[cid] ELSE [c |-> 0, t |-> now]

\* self.tree.exists(cid)
TreeExists(tr, cid) == \E i \in 1..Len(tr) : tr[i].iid = cid

\* self.tree.item(cid, values=row) if the row exists, else insert at the end
TreePut(tr, cid, row) ==
    IF TreeExists(tr, cid)
    THEN [i \in 1..Len(tr) |-> IF tr[i].iid = cid THEN [iid |-> cid, values |-> row] ELSE tr[i]]
    ELSE Append(tr, [iid |-> cid, values |-> row])

\* what parse_frame works on and leaves behind; exc: an exception left the call
PState(st, tr, log, exc) == [stats |-> st, tree |-> tr, txt_log |-> log, exc |-> exc]

\* parse_frame from time.time() on, for the id cid and what decode returned
\* for it: the statistics, the table row, the decoded log
parse_frame_record(ps, ts, parts, cid, d, now) ==
    LET data  == Drop(parts, 2)
        prev  == StatsGet(ps.stats, cid, now)
        freq  == IF now - prev.t > 0 THEN Fmt1Hz(now - prev.t) ELSE "-"
        st    == (cid :> [c |-> prev.c + 1, t |-> now]) @@ ps.stats
        row   == <<cid, get_name(cid), parts[2], JoinSp(data), val_str(d), freq, st[cid].c, ts>>
    IN  IF d.kind = "raise" THEN PState(ps.stats, ps.tree, ps.txt_log, TRUE)
        ELSE PState(st, TreePut(ps.tree, cid, row),
                    Append(ps.txt_log, [kind |-> "decoded", ts |-> ts, cid |-> cid, val |-> val_str(d)]),
                    FALSE)

\* the tokens of the line, with a length check that lets a single token pass
parse_frame_parts_one(ps, ts, parts, now, up) ==
    IF Len(parts) < 1 THEN ps
    ELSE LET p == IF Len(parts) < 2 THEN Append(parts, <<>>) ELSE parts
         IN  parse_frame_record(ps, ts, p, Cid(p[1]), decode(Cid(p[1]), Drop(p, 2), up), now)

\* the tokens of the line, from the length check on
parse_frame_parts(ps, ts, parts, now, up) ==
    IF Len(parts) < 2 THEN ps
    ELSE parse_frame_record(ps, ts, parts, Cid(parts[1]), decode(Cid(parts[1]), Drop(parts, 2), up), now)

\* the body of parse_frame's try block
parse_frame_try(ps, ts, line, now, up) == parse_frame_parts(ps, ts, Parts(line), now, up)

\* parse_frame without the length check and without try / except: parts[0] of
\* a line with no token raises, and nothing catches it
parse_frame_unguarded(ps, ts, line, now, up) ==
    IF Len(Parts(line)) < 2 THEN PState(ps.stats, ps.tree, ps.txt_log, TRUE)
    ELSE parse_frame_try(ps, ts, line, now, up)

\* except: pass
parse_frame_except(ps, r) == IF r.exc THEN PState(ps.stats, ps.tree, ps.txt_log, FALSE) ELSE r

\* CANsnifferUI.parse_frame: try: ... except: pass
parse_frame(ps, ts, line, now, up) == parse_frame_except(ps, parse_frame_try(ps, ts, line, now, up))

(***************************************************************************)
(* State.  arg, dec, nm, done: one use of the decode library (the          *)
(* arguments, what decode and get_name returned, which calls were made).   *)
(***************************************************************************)

VARIABLES arg, dec, nm, done

libVars == <<arg, dec, nm, done>>

(***************************************************************************)
(* iarg, iout: one use of a fixed-width extraction helper on the encoding  *)
(* of a value (the helper and value, what the helper returned).            *)
(***************************************************************************)

VARIABLES iarg, iout

intVars == <<iarg, iout>>

(***************************************************************************)
(* The application (V3.py).                                                *)
(*   q          self.q, the queue shared by the transports and the UI      *)
(*   stats      self.stats: cid -> [c, t]                                  *)
(*   tree       the dashboard rows, in insertion order: [iid, values]      *)
(*   txt_raw, txt_log   the two text widgets, one entry per inserted line  *)
(*   ser_mgr    self.ser_mgr: None or the SerialManager with its thread    *)
(*   test_gen   self.test_gen: None or the TestGen with its thread         *)
(*   orphans    transport objects the UI no longer refers to whose read    *)
(*              loop has not ended (a bag: they have no name)              *)
(*   btn_con, btn_dis   state of the Connect and Disconnect buttons        *)
(*   pc_ui      what the UI thread does: "idle" (in the event loop) or     *)
(*              "drain" (inside update_loop)                               *)
(*   alive      update_loop is scheduled (root.after) or running           *)
(*   clock      the latest reading of time.time() / datetime.now(), in     *)
(*              half seconds                                               *)
(*   device     the lines the attached serial device may send              *)
(*   sent, handled   history: every message put on q, and every message    *)
(*              update_loop has finished with, in order                    *)
(*   batch      how many messages the running update_loop has finished     *)
(*              with (0 in the event loop)                                 *)
(*   due        history: how many messages were on q when the running      *)
(*              update_loop began (0 in the event loop)                    *)
(***************************************************************************)

VARIABLES q, stats, tree, txt_raw, txt_log, ser_mgr, test_gen, orphans,
          btn_con, btn_dis, pc_ui, alive, clock, sent, handled, device, batch, due

appVars == <<q, stats, tree, txt_raw, txt_log, ser_mgr, test_gen, orphans,
             btn_con, btn_dis, pc_ui, alive, clock, sent, handled, device, batch, due>>

(***************************************************************************)
(* A transport object on its own, under a caller of start() and stop():    *)
(*   transport  the object's attributes (its pc stays "dead")              *)
(*   loops      the threads running its loop, oldest first: each the       *)
(*              object's attributes as the thread sees them, and the       *)
(*              thread's own position and locals                           *)
(*   ret        what the latest call of start() returned ("none" before    *)
(*              the first call)                                            *)
(*   begun      history: the latest call of start() started a thread       *)
(*   starts     history: how many times start() was called                 *)
(*   out        what the latest step put on the queue                      *)
(***************************************************************************)

VARIABLES transport, loops, ret, begun, starts, out

unitVars == <<transport, loops, ret, begun, starts, out>>

vars == <<arg, dec, nm, done, iarg, iout, q, stats, tree, txt_raw, txt_log, ser_mgr,
          test_gen, orphans, btn_con, btn_dis, pc_ui, alive, clock, sent, handled, device,
          batch, due, transport, loops, ret, begun, starts, out>>

None == [kind |-> "None"]

\* no transport object on its own
UnitIdle ==
    /\ transport = None
    /\ loops = <<>>
    /\ ret = "none"
    /\ begun = FALSE
    /\ starts = 0
    /\ out = <<>>

\* the application right after CANsnifferUI.__init__, attached to a device
AppInit(lines) ==
    /\ device = lines
    /\ q = <<>>
    /\ stats = <<>>
    /\ tree = <<>>
    /\ txt_raw = <<>>
    /\ txt_log = <<>>
    /\ ser_mgr = None
    /\ test_gen = None
    /\ orphans = EmptyBag
    /\ btn_con = "normal"
    /\ btn_dis = "disabled"
    /\ pc_ui = "idle"
    /\ alive = TRUE
    /\ clock = 0
    /\ sent = <<>>
    /\ handled = <<>>
    /\ batch = 0
    /\ due = 0

(***************************************************************************)
(* Bounded inputs of the library                                           *)
(***************************************************************************)

\* longest payload drawn token by token
MaxLen == 3

\* f"{x:02X}": a byte as a two-digit upper-case token
Tok2(x) == <<HexUpper[(x \div 16) + 1], HexUpper[(x % 16) + 1]>>

RECURSIVE HexSeq(_)
HexSeq(n) == IF n < 16 THEN <<HexUpper[n + 1]>> ELSE Append(HexSeq(n \div 16), HexUpper[(n % 16) + 1])

\* "0x" + the id's hex digits
IdTok(n) == <<"0", "x">> \o HexSeq(n)

NotHex == <<"Z", "Z">>

RegisteredIds == DOMAIN DECODER_MAP

\* 0x999 and 0x1A are in neither table
UnregisteredIds == {2457, 26}

IdToks ==
    {IdTok(n) : n \in RegisteredIds \cup UnregisteredIds}
        \cup {<<"0", "x">> \o NotHex, <<"0", "x", "0", "X", "1", "8", "1">>,
              <<"0", "x", "0", "1", "8", "1">>, <<"0", "x">>}

\* selector bytes of 0x181 (0x30, 0xEB, 0x20, 0x49, 0x4A), other bytes, and bad tokens
FirstToks ==
    {Tok2(b) : b \in {48, 235, 32, 73, 74, 0, 1, 128, 255}}
        \cup {NotHex, <<"1", "F", "F">>, <<"-", "5">>}

RestBytes == {0, 1, 2, 88, 128, 255}

RestToks == {Tok2(b) : b \in {0, 88, 255}} \cup {NotHex}

RECURSIVE SeqsUpTo(_, _)
SeqsUpTo(S, n) ==
    IF n <= 0 THEN {<<>>}
    ELSE LET shorter == SeqsUpTo(S, n - 1)
         IN  shorter \cup {Append(t, x) : t \in shorter, x \in S}

ShortPayloads ==
    {<<>>} \cup {<<f>> \o r : f \in FirstToks, r \in SeqsUpTo(RestToks, MaxLen - 1)}

\* every selector byte with every pair of following bytes
MuxPayloads == {<<Tok2(sel), Tok2(b1), Tok2(b2)>> : sel \in 0..255, b1 \in RestBytes, b2 \in RestBytes}

ToToks(bytes) == [i \in 1..Len(bytes) |-> Tok2(bytes[i])]

\* bytes 1-5 of six-byte frames of the 40-bit format
IvtTails ==
    {<<0, 0, 3, 232, 0>>, <<0, 0, 0, 3, 232>>, <<255, 255, 255, 255, 251>>,
     <<128, 0, 0, 0, 0>>, <<127, 255, 255, 255, 255>>, <<0, 0, 6, 26, 128>>,
     <<0, 0, 0, 3, 237>>, <<255, 255, 255, 255, 255>>}

\* any byte 0 before one tail, two bytes 0 before the others
IvtPayloads ==
    {<<Tok2(b0)>> \o ToToks(<<0, 0, 3, 232, 0>>) : b0 \in 0..255}
        \cup {<<Tok2(b0)>> \o ToToks(t) : b0 \in {0, 255}, t \in IvtTails}

IvtIds == {1313, 1314, 1315, 1318, 1319, 1320}

LongPayloads ==
    {ToToks(<<1, 2, 3, 4, 5, 6, 7>>), ToToks(<<0, 0, 1, 244, 255, 254, 128, 0>>),
     ToToks(<<48, 88, 2, 0, 0, 0, 0>>), ToToks(<<1, 2, 3, 4, 5>>)}

Args ==
    [id : IdToks, data : ShortPayloads \cup LongPayloads]
        \cup [id : {IdTok(385)}, data : MuxPayloads]
        \cup [id : {IdTok(n) : n \in IvtIds}, data : IvtPayloads]

NotCalled == [kind |-> "none"]

(***************************************************************************)
(* SpecLib: the library called on any of the bounded arguments             *)
(***************************************************************************)

LibIdle ==
    /\ arg = [id |-> <<>>, data |-> <<>>]
    /\ dec = NotCalled
    /\ nm = ""
    /\ done = {}

IntIdle ==
    /\ iarg = [f |-> "none"]
    /\ iout = NotCalled

InitLib ==
    /\ arg \in Args
    /\ dec = NotCalled
    /\ nm = ""
    /\ done = {}
    /\ IntIdle
    /\ AppInit({})
    /\ UnitIdle

CallDecode ==
    /\ "decode" \notin done
    /\ \E up \in BOOLEAN : dec' = decode(arg.id, arg.data, up)
    /\ done' = done \cup {"decode"}
    /\ UNCHANGED <<arg, nm, intVars, appVars, unitVars>>

CallGetName ==
    /\ "get_name" \notin done
    /\ nm' = get_name(arg.id)
    /\ done' = done \cup {"get_name"}
    /\ UNCHANGED <<arg, dec, intVars, appVars, unitVars>>

NextLib == CallDecode \/ CallGetName

SpecLib == InitLib /\ [][NextLib]_vars
(***************************************************************************)
(* SpecInt: a helper applied to the encoding of a value.  The encoders are *)
(* the ones the simulator uses (V3.py, TestGen.loop).                      *)
(***************************************************************************)

\* struct.pack('>h', v) for v in [-32768, 32767]: the two bytes, most
\* significant first (the big-endian encoding)
pack_be_h(v) == <<(v % 65536) \div 256, (v % 65536) % 256>>

\* struct.pack('<h', v) for v in [-32768, 32767], as a list of bytes
pack_le_h(v) == <<(v % 65536) % 256, (v % 65536) \div 256>>

\* v.to_bytes(6, 'big', signed=True) for a two-limb v in [-2^47, 2^47 - 1]
to_bytes6(v) ==
    LET h == v.hi % (2 ^ 28)
    IN  <<h \div Limb, (h \div 4096) % 256, (h \div 16) % 256,
          ((h % 16) * 16) + (v.lo \div 65536), (v.lo \div 256) % 256, v.lo % 256>>

Int16 == (-32768)..32767

\* 40-bit values: both ends of the range, around zero, and around limb carries
Int40Samples ==
    {Big(h, l) : h \in {-(2 ^ 19), 1 - (2 ^ 19), -2, -1, 0, 1, 2, 4095, 4096, (2 ^ 19) - 1},
                 l \in {0, 1, 255, 256, 1000, 65535, 65536, Limb - 1}}

InitInt ==
    /\ iarg \in [f : {"parse_le_int16", "parse_be_int16"}, v : Int16]
                  \cup [f : {"parse_ivt_int40"}, v : Int40Samples, b0 : {0, 1, 85, 128, 255}]
    /\ iout = NotCalled
    /\ LibIdle
    /\ AppInit({})
    /\ UnitIdle

ApplyLE ==
    /\ iarg.f = "parse_le_int16"
    /\ iout = NotCalled
    /\ iout' = [kind |-> "int", v |-> parse_le_int16(pack_le_h(iarg.v), 0)]
    /\ UNCHANGED <<iarg, libVars, appVars, unitVars>>

ApplyBE ==
    /\ iarg.f = "parse_be_int16"
    /\ iout = NotCalled
    /\ iout' = [kind |-> "int", v |-> parse_be_int16(pack_be_h(iarg.v), 0)]
    /\ UNCHANGED <<iarg, libVars, appVars, unitVars>>

ApplyIVT ==
    /\ iarg.f = "parse_ivt_int40"
    /\ iout = NotCalled
    /\ iout' = [kind |-> "int", v |-> parse_ivt_int40(<<iarg.b0>> \o Tail(to_bytes6(iarg.v)))]
    /\ UNCHANGED <<iarg, libVars, appVars, unitVars>>

NextInt == ApplyLE \/ ApplyBE \/ ApplyIVT

SpecInt == InitInt /\ [][NextInt]_vars
(***************************************************************************)
(* Spec: the application.  Messages, transports, the UI's handlers.        *)
(***************************************************************************)

\* most messages ever put on the queue in one behaviour
MaxSent == 3

\* latest clock reading, in half seconds
MaxClock == 1

\* time.time() / datetime.now(): a reading no earlier than the latest one
Readings == clock..MaxClock

Data(ts, line) == [type |-> "DATA", ts |-> ts, line |-> line]

Sys(text) == [type |-> "SYS", text |-> text]

\* self.q.put(m) for each m of ms
Put(ms) ==
    /\ Len(sent) + Len(ms) <= MaxSent
    /\ q' = q \o ms
    /\ sent' = sent \o ms

Sp == <<" ">>

T181 == <<"1", "8", "1">>

(***************************************************************************)
(* Lines the serial port may deliver (after decode and strip, never        *)
(* empty): a well-formed frame with its id written in several ways, with   *)
(* labels and commas, with a non-hex byte or id token, and lines with too  *)
(* few tokens.  LiveLines are those the device of Spec sends.              *)
(***************************************************************************)

Frame181 == T181 \o Sp \o <<"8">> \o Sp \o JoinSp(ToToks(<<48, 88, 2>>))

Frame0181 == <<"0">> \o Frame181

FrameLabelled ==
    LabelId \o <<"0", "x">> \o T181 \o <<",", "3", ",">> \o LabelData \o <<"3", "0", ",", "5", "8", ",", "0", "2">>

FrameBadByte == <<"0", "x">> \o T181 \o Sp \o <<"8">> \o Sp \o NotHex \o Sp \o <<"0", "0">>

FrameBadId == NotHex \o Sp \o <<"8">> \o Sp \o <<"0", "0">>

Garbage == <<"g", "a", "r", "b", "a", "g", "e">>

OnlyLabels == <<",">> \o LabelId \o <<",">> \o LabelData

LiveLines == {Frame181, Frame0181, FrameBadByte, Garbage}

\* what the user may have in the port and baud boxes when pressing Connect
PortTexts == {"", "COM3"}

BaudTexts == {<<"1", "1", "5", "2", "0", "0">>, <<"-", "1">>}

\* how serial.Serial(...) ends: the port opens, or it raises (of the three
\* except clauses, which differ in the text they put, the port being busy)
OpenOutcomes == {"ok", "SerialException"}

\* random.randint(-500, 500): both ends
Jitters == {-500, 500}

(***************************************************************************)
(* SerialManager and its read loop.  pc: "top" (at the while test),        *)
(* "body" (inside the try, before reading), "put" (a line was read and     *)
(* stamped, q.put comes next), "dead" (the loop has ended or never ran).   *)
(* faults counts the error messages the loop has put (history).            *)
(***************************************************************************)

SerialManager(port, baud) ==
    [kind |-> "serial", port |-> port, baud |-> baud, running |-> FALSE, open |-> FALSE,
     pc |-> "dead", line |-> <<>>, ts |-> 0, faults |-> 0]

\* the status message of a failed SerialManager.start
StartError(port, outcome) ==
    CASE outcome = "ValueError"      -> Sys("Config Error: Invalid Baud Rate or Parameter (...)")
      [] outcome = "SerialException" -> Sys("Serial Error: " \o port \o " unavailable or busy.")
      [] OTHER                       -> Sys("Critical Error: ...")

\* SerialManager.start when serial.Serial(...) ends with outcome: the object
\* with the thread it started (pc "top") if any, the message put, the value
\* returned, and whether a thread was started
SerialStart(t, outcome) ==
    IF outcome = "ok"
    THEN [t |-> [t EXCEPT !.open = TRUE, !.running = TRUE, !.pc = "top"],
          put |-> <<Sys("Connected to " \o t.port \o " @ " \o DecNat(t.baud))>>,
          ret |-> "True", begun |-> TRUE]
    ELSE [t |-> t, put |-> <<StartError(t.port, outcome)>>, ret |-> "False", begun |-> FALSE]

\* SerialManager.stop, on the object; the caller puts ("SYS", "Disconnected")
SerialStop(t) == [t EXCEPT !.running = FALSE, !.open = FALSE]

\* SerialManager.loop with an except clause that reports and carries on
SerialLoop_carries_on(t, now) ==
    CASE t.pc = "top" ->
            {[t |-> [t EXCEPT !.pc = IF t.running THEN "body" ELSE "dead"], put |-> <<>>, read |-> FALSE]}
      [] t.pc = "body" ->
            \* in_waiting / readline raise on a closed port, and may on an open one
            {[t |-> [t EXCEPT !.pc = "top", !.faults = t.faults + 1],
              put |-> <<Sys("Serial Error: Connection lost")>>, read |-> FALSE]}
            \cup (IF t.open
                  THEN {[t |-> [t EXCEPT !.pc = "top"], put |-> <<>>, read |-> FALSE]}
                       \cup {[t |-> [t EXCEPT !.pc = "put", !.line = l, !.ts = now], put |-> <<>>,
                               read |-> TRUE] : l \in device}
                  ELSE {})
      [] t.pc = "put" ->
            {[t |-> [t EXCEPT !.pc = "top", !.line = <<>>, !.ts = 0], put |-> <<Data(t.ts, t.line)>>,
              read |-> FALSE]}
      [] OTHER -> {}

\* one step of SerialManager.loop: the set of [t, put, read] it may lead to
\* (read: the step took the reading now of the clock)
SerialLoop(t, now) ==
    CASE t.pc = "top" ->
            {[t |-> [t EXCEPT !.pc = IF t.running THEN "body" ELSE "dead"], put |-> <<>>, read |-> FALSE]}
      [] t.pc = "body" ->
            \* in_waiting / readline raise on a closed port, and may on an open one
            {[t |-> [t EXCEPT !.running = FALSE, !.pc = "top", !.faults = t.faults + 1],
              put |-> <<Sys("Serial Error: Connection lost")>>, read |-> FALSE]}
            \cup (IF t.open
                  THEN {[t |-> [t EXCEPT !.pc = "top"], put |-> <<>>, read |-> FALSE]}
                       \cup {[t |-> [t EXCEPT !.pc = "put", !.line = l, !.ts = now], put |-> <<>>,
                               read |-> TRUE] : l \in device}
                  ELSE {})
      [] t.pc = "put" ->
            {[t |-> [t EXCEPT !.pc = "top", !.line = <<>>, !.ts = 0], put |-> <<Data(t.ts, t.line)>>,
              read |-> FALSE]}
      [] OTHER -> {}

(***************************************************************************)
(* TestGen and its read loop.  volt is below 2^20, one limb.  pc: "top",   *)
(* "emit" (msgs[k] is put next), "dead".  v is the round's                 *)
(* int(self.volt + random.randint(-500, 500)).                             *)
(*                                                                         *)
(* temp counts the additions of 0.05: 600 + n is the double reached from   *)
(* 30 by n additions, 1201 is the int 60 that min(60, ...) returns.  The   *)
(* doubles grow strictly with n, and stay a little under the decimal       *)
(* 30 + n/20 from n = 60 on: the 600th is 59.99999999999844, so the clamp  *)
(* first acts at the 601st addition, and int() of the 60th, 80th, ...,     *)
(* 600th is one less than the decimal's integer part.                      *)
(***************************************************************************)

TestGen ==
    [kind |-> "sim", running |-> FALSE, rpm |-> 0, rpm_dir |-> 1, volt |-> 400000, temp |-> 600,
     pc |-> "dead", k |-> 0, msgs |-> <<>>, ts |-> 0, v |-> 0]

\* int(self.temp)
IntTemp(temp) ==
    IF temp >= 1201 THEN 60
    ELSE IF temp >= 660 /\ temp % 20 = 0 THEN (temp \div 20) - 1
    ELSE temp \div 20

\* TestGen.start: it has no return statement, so the caller gets None
TestGenStart(t) ==
    [t |-> [t EXCEPT !.running = TRUE, !.pc = "top"], put |-> <<Sys("Sim Started")>>,
     ret |-> "None", begun |-> TRUE]

\* TestGen.stop: the object; the message put is ("SYS", "Sim Stopped")
TestGenStop(t) == [t EXCEPT !.running = FALSE]

\* struct.pack('<h', int(x)).hex().upper(), cut in two tokens
PackTokens(x) == ToToks(pack_le_h(x))

\* the three lines of one round of TestGen.loop
SimMsgs(rpm, temp, volt, jitter) ==
    LET head   == <<"0", "x">> \o T181 \o Sp \o <<"8">> \o Sp
        zeros  == JoinSp(ToToks(<<0, 0, 0, 0>>))
        v_str  == JoinSp(ToToks(to_bytes6(Big(0, volt + jitter))))
    IN  <<head \o <<"3", "0">> \o Sp \o JoinSp(PackTokens(rpm)) \o Sp \o zeros,
          head \o <<"4", "9">> \o Sp \o JoinSp(PackTokens(IntTemp(temp))) \o Sp \o zeros,
          <<"0", "x", "5", "2", "3">> \o Sp \o <<"6">> \o Sp \o v_str>>

\* TestGen.loop turning the counter only once it is past 6000
SimLoop_late(t, now) ==
    CASE t.pc = "top" ->
            IF ~t.running THEN {[t |-> [t EXCEPT !.pc = "dead"], put |-> <<>>, read |-> FALSE]}
            ELSE LET rpm  == t.rpm + (40 * t.rpm_dir)
                     dir  == IF rpm > 6000 \/ rpm <= 0 THEN -t.rpm_dir ELSE t.rpm_dir
                     temp == IF t.temp >= 1200 THEN 1201 ELSE t.temp + 1
                 IN  {[t |-> [t EXCEPT !.rpm = rpm, !.rpm_dir = dir, !.temp = temp, !.pc = "emit",
                                       !.k = 1, !.msgs = SimMsgs(rpm, temp, t.volt, j), !.ts = now,
                                       !.v = t.volt + j],
                       put |-> <<>>, read |-> TRUE] : j \in Jitters}
      [] t.pc = "emit" ->
            {[t |-> IF t.k < 3 THEN [t EXCEPT !.k = t.k + 1]
                    ELSE [t EXCEPT !.pc = "top", !.k = 0, !.msgs = <<>>, !.ts = 0, !.v = 0],
              put |-> <<Data(t.ts, t.msgs[t.k])>>, read |-> FALSE]}
      [] OTHER -> {}

\* one step of TestGen.loop: the set of [t, put, read] it may lead to
SimLoop(t, now) ==
    CASE t.pc = "top" ->
            IF ~t.running THEN {[t |-> [t EXCEPT !.pc = "dead"], put |-> <<>>, read |-> FALSE]}
            ELSE LET rpm  == t.rpm + (40 * t.rpm_dir)
                     dir  == IF rpm >= 6000 \/ rpm <= 0 THEN -t.rpm_dir ELSE t.rpm_dir
                     temp == IF t.temp >= 1200 THEN 1201 ELSE t.temp + 1
                 IN  {[t |-> [t EXCEPT !.rpm = rpm, !.rpm_dir = dir, !.temp = temp, !.pc = "emit",
                                       !.k = 1, !.msgs = SimMsgs(rpm, temp, t.volt, j), !.ts = now,
                                       !.v = t.volt + j],
                       put |-> <<>>, read |-> TRUE] : j \in Jitters}
      [] t.pc = "emit" ->
            {[t |-> IF t.k < 3 THEN [t EXCEPT !.k = t.k + 1]
                    ELSE [t EXCEPT !.pc = "top", !.k = 0, !.msgs = <<>>, !.ts = 0, !.v = 0],
              put |-> <<Data(t.ts, t.msgs[t.k])>>, read |-> FALSE]}
      [] OTHER -> {}

Loop(t, now) == IF t.kind = "serial" THEN SerialLoop(t, now) ELSE SimLoop(t, now)

\* the object t is dropped by the UI: its loop, if not ended, runs on unnamed
Orphaned(t) ==
    IF t = None \/ t.pc = "dead" THEN orphans ELSE orphans (+) SetToBag({t})

\* the clock after a step of a read loop
Read(o, now) == clock' = IF o.read THEN now ELSE clock

\* the read loop of the live transport the UI refers to
SerialThread ==
    /\ ser_mgr /= None
    /\ \E now \in Readings : \E o \in SerialLoop(ser_mgr, now) :
          /\ ser_mgr' = o.t
          /\ Put(o.put)
          /\ Read(o, now)
    /\ UNCHANGED <<stats, tree, txt_raw, txt_log, test_gen, orphans, btn_con, btn_dis, pc_ui,
                   alive, handled, device, batch, due, libVars, intVars, unitVars>>

\* the read loop of the simulator the UI refers to
SimThread ==
    /\ test_gen /= None
    /\ \E now \in Readings : \E o \in SimLoop(test_gen, now) :
          /\ test_gen' = o.t
          /\ Put(o.put)
          /\ Read(o, now)
    /\ UNCHANGED <<stats, tree, txt_raw, txt_log, ser_mgr, orphans, btn_con, btn_dis, pc_ui,
                   alive, handled, device, batch, due, libVars, intVars, unitVars>>

\* the read loop of a transport the UI has dropped
OrphanThread ==
    /\ \E t \in BagToSet(orphans) : \E now \in Readings : \E o \in Loop(t, now) :
          /\ orphans' = IF o.t.pc = "dead" THEN orphans (-) SetToBag({t})
                        ELSE (orphans (-) SetToBag({t})) (+) SetToBag({o.t})
          /\ Put(o.put)
          /\ Read(o, now)
    /\ UNCHANGED <<stats, tree, txt_raw, txt_log, ser_mgr, test_gen, btn_con, btn_dis, pc_ui,
                   alive, handled, device, batch, due, libVars, intVars, unitVars>>

(***************************************************************************)
(* The UI thread: the button handlers and update_loop.  A handler runs     *)
(* from the event loop, so never inside update_loop.  The texts of the     *)
(* port and baud boxes are inputs of connect.                              *)
(***************************************************************************)

\* CANsnifferUI.connect, with SerialManager.__init__ and SerialManager.start
connect(port, raw_baud, outcome) ==
    IF port = "" THEN UNCHANGED appVars
    ELSE LET b     == PyInt10(raw_baud)
             valid == b.ok /\ b.v > 0
             baud  == IF valid THEN b.v ELSE 9600
             mgr   == SerialManager(port, baud)
         IN  /\ txt_log' = IF valid THEN txt_log
                           ELSE Append(txt_log, [kind |-> "sys",
                                    text |-> "SYS: Invalid baud '" \o Str(raw_baud) \o "'. Falling back to 9600."])
             /\ orphans' = Orphaned(ser_mgr)
             /\ \E r \in {SerialStart(mgr, outcome)} :
                   /\ ser_mgr' = r.t
                   /\ Put(r.put)
                   /\ btn_con' = IF r.ret = "True" THEN "disabled" ELSE "normal"
                   /\ btn_dis' = IF r.ret = "True" THEN "normal" ELSE btn_dis
             /\ UNCHANGED <<stats, tree, txt_raw, test_gen, pc_ui, alive, clock, handled, device, batch, due>>

Connect ==
    /\ pc_ui = "idle"
    /\ btn_con = "normal"
    /\ \E port \in PortTexts, raw_baud \in BaudTexts, outcome \in OpenOutcomes :
          connect(port, raw_baud, outcome)
    /\ UNCHANGED <<libVars, intVars, unitVars>>

\* CANsnifferUI.disconnect, with SerialManager.stop
disconnect ==
    /\ IF ser_mgr /= None
       THEN /\ Put(<<Sys("Disconnected")>>)
            /\ orphans' = Orphaned(SerialStop(ser_mgr))
            /\ ser_mgr' = None
       ELSE UNCHANGED <<q, sent, orphans, ser_mgr>>
    /\ btn_con' = "normal"
    /\ btn_dis' = "disabled"
    /\ UNCHANGED <<stats, tree, txt_raw, txt_log, test_gen, pc_ui, alive, clock, handled, device, batch, due>>

Disconnect ==
    /\ pc_ui = "idle"
    /\ btn_dis = "normal"
    /\ disconnect
    /\ UNCHANGED <<libVars, intVars, unitVars>>

\* CANsnifferUI.toggle_sim, with TestGen.__init__, TestGen.start and TestGen.stop
toggle_sim ==
    /\ IF test_gen = None
       THEN /\ test_gen' = TestGenStart(TestGen).t
            /\ Put(TestGenStart(TestGen).put)
            /\ btn_con' = "disabled"
            /\ orphans' = orphans
       ELSE /\ Put(<<Sys("Sim Stopped")>>)
            /\ orphans' = Orphaned(TestGenStop(test_gen))
            /\ test_gen' = None
            /\ btn_con' = "normal"
    /\ UNCHANGED <<stats, tree, txt_raw, txt_log, ser_mgr, btn_dis, pc_ui, alive, clock, handled, device, batch, due>>

ToggleSim ==
    /\ pc_ui = "idle"
    /\ toggle_sim
    /\ UNCHANGED <<libVars, intVars, unitVars>>

\* CANsnifferUI.clear with every piece of the UI's state emptied, stats too
clear_everything ==
    /\ txt_raw' = <<>>
    /\ txt_log' = <<>>
    /\ stats' = <<>>
    /\ UNCHANGED <<q, tree, ser_mgr, test_gen, orphans, btn_con, btn_dis, pc_ui, alive,
                   clock, sent, handled, device, batch, due>>

\* CANsnifferUI.clear (the Clear Log button)
clear ==
    /\ txt_raw' = <<>>
    /\ txt_log' = <<>>
    /\ UNCHANGED <<q, stats, tree, ser_mgr, test_gen, orphans, btn_con, btn_dis, pc_ui, alive,
                   clock, sent, handled, device, batch, due>>

Clear ==
    /\ pc_ui = "idle"
    /\ clear
    /\ UNCHANGED <<libVars, intVars, unitVars>>

\* root.after(50, self.update_loop) fires
Tick ==
    /\ pc_ui = "idle"
    /\ alive
    /\ pc_ui' = "drain"
    /\ batch' = 0
    /\ due' = Len(q)
    /\ UNCHANGED <<q, stats, tree, txt_raw, txt_log, ser_mgr, test_gen, orphans, btn_con, btn_dis,
                   alive, clock, sent, handled, device, libVars, intVars, unitVars>>

\* one round of update_loop's while loop: q.get() and the message's branch.
\* An exception leaving parse_frame would leave update_loop before it
\* schedules itself again.
DrainStep ==
    /\ pc_ui = "drain"
    /\ q /= <<>>
    /\ q' = Tail(q)
    /\ LET m == Head(q)
       IN  IF m.type = "DATA"
           THEN \E up \in BOOLEAN, now \in Readings :
                  \E r \in {parse_frame(PState(stats, tree, txt_log, FALSE), m.ts, m.line, now, up)} :
                      /\ txt_raw' = Append(txt_raw, [ts |-> m.ts, raw |-> m.line])
                      /\ clock' = now
                      /\ stats' = r.stats
                      /\ tree' = r.tree
                      /\ txt_log' = r.txt_log
                      /\ alive' = ~r.exc
                      /\ pc_ui' = IF r.exc THEN "idle" ELSE "drain"
                      /\ handled' = IF r.exc THEN handled ELSE Append(handled, m)
                      /\ batch' = IF r.exc THEN 0 ELSE batch + 1
                      /\ due' = IF r.exc THEN 0 ELSE due
           ELSE /\ txt_log' = Append(txt_log, [kind |-> "system", text |-> m.text])
                /\ handled' = Append(handled, m)
                /\ batch' = batch + 1
                /\ UNCHANGED <<stats, tree, txt_raw, alive, pc_ui, clock, due>>
    /\ UNCHANGED <<ser_mgr, test_gen, orphans, btn_con, btn_dis, sent, device, libVars, intVars, unitVars>>

\* the while test finds the queue empty: root.after(50, self.update_loop)
DrainEnd ==
    /\ pc_ui = "drain"
    /\ q = <<>>
    /\ pc_ui' = "idle"
    /\ batch' = 0
    /\ due' = 0
    /\ UNCHANGED <<q, stats, tree, txt_raw, txt_log, ser_mgr, test_gen, orphans, btn_con, btn_dis,
                   alive, clock, sent, handled, device, libVars, intVars, unitVars>>

Init ==
    /\ AppInit(LiveLines)
    /\ UnitIdle
    /\ LibIdle
    /\ IntIdle

Next ==
    \/ Connect
    \/ Disconnect
    \/ ToggleSim
    \/ Clear
    \/ Tick
    \/ DrainStep
    \/ DrainEnd
    \/ SerialThread
    \/ SimThread
    \/ OrphanThread

Spec == Init /\ [][Next]_vars

(***************************************************************************)
(* SpecFrame: the consumer alone, about to take one line from the queue    *)
(* after a short history of earlier lines.  Times count back from the      *)
(* clock's reading 0 at the start: an earlier line stamped and processed   *)
(* age half seconds ago has the time -age.                                 *)
(***************************************************************************)

\* oldest earlier line, in half seconds before the start
MaxAge == 8

\* the lines parse_frame is given
FrameLines ==
    {Frame181, Frame0181, FrameLabelled, FrameBadByte, FrameBadId, Garbage, OnlyLabels, <<>>, <<",", ",">>}

\* the lines processed earlier
EarlierLines == {Frame181, Frame0181, FrameBadByte}

Earlier == [line : EarlierLines, age : 0..MaxAge]

\* up to two earlier lines, oldest first
Histories ==
    {<<>>} \cup {<<a>> : a \in Earlier}
           \cup {h \in Earlier \X Earlier : h[2].age <= h[1].age}

RECURSIVE Replay(_, _)
\* what parse_frame leaves behind after the lines of h, each processed at the time it was stamped
Replay(ps, h) ==
    IF h = <<>> THEN ps
    ELSE Replay(parse_frame(ps, -h[1].age, h[1].line, -h[1].age, TRUE), Tail(h))

InitFrame ==
    /\ \E h \in Histories : \E line \in FrameLines : \E ps \in {Replay(PState(<<>>, <<>>, <<>>, FALSE), h)} :
          /\ stats = ps.stats
          /\ tree = ps.tree
          /\ txt_log = ps.txt_log
          /\ txt_raw = [i \in 1..Len(h) |-> [ts |-> -h[i].age, raw |-> h[i].line]]
          /\ handled = [i \in 1..Len(h) |-> Data(-h[i].age, h[i].line)]
          /\ q = <<Data(0, line)>>
          /\ sent = [i \in 1..Len(h) |-> Data(-h[i].age, h[i].line)] \o <<Data(0, line)>>
    /\ device = {}
    /\ ser_mgr = None
    /\ test_gen = None
    /\ orphans = EmptyBag
    /\ btn_con = "normal"
    /\ btn_dis = "disabled"
    /\ pc_ui = "drain"
    /\ batch = 0
    /\ due = 1
    /\ alive = TRUE
    /\ clock = 0
    /\ LibIdle
    /\ IntIdle
    /\ UnitIdle

NextFrame ==
    \/ Tick
    \/ DrainStep
    \/ DrainEnd

SpecFrame == InitFrame /\ [][NextFrame]_vars

(***************************************************************************)
(* SpecStart: one transport object of either class on its own, with a      *)
(* caller that calls start() and stop() in any order, and the threads      *)
(* start() has begun.  The threads of one object share its attributes.     *)
(***************************************************************************)

\* calls of start() on the one object
MaxStarts == 2

\* rounds of TestGen.loop, over all the threads of the one object
MaxRounds == 2

\* the rounds of TestGen.loop begun on the object o: each adds 0.05 to temp
Rounds(o) == IF o.kind = "sim" THEN o.temp - 600 ELSE 0

\* the thread u of an object seeing the object's attributes as in o
View(o, u) ==
    IF o.kind = "serial"
    THEN [u EXCEPT !.running = o.running, !.open = o.open]
    ELSE [u EXCEPT !.running = o.running, !.rpm = o.rpm, !.rpm_dir = o.rpm_dir, !.temp = o.temp]

\* the attributes of the object as its thread u leaves them
Attributes(u) == View(u, transport)

\* the threads after one of them, or the caller, left the object as o
Threads(ths, o) == SelectSeq([j \in 1..Len(ths) |-> View(o, ths[j])], LAMBDA u : u.pc /= "dead")

InitStart ==
    /\ transport \in {SerialManager("COM3", 9600), TestGen}
    /\ loops = <<>>
    /\ ret = "none"
    /\ begun = FALSE
    /\ starts = 0
    /\ out = <<>>
    /\ AppInit(LiveLines)
    /\ LibIdle
    /\ IntIdle

\* transport.start()
StartCall ==
    /\ starts < MaxStarts
    /\ \E outcome \in OpenOutcomes :
        \E r \in {IF transport.kind = "serial" THEN SerialStart(transport, outcome)
                  ELSE TestGenStart(transport)} :
          /\ transport' = Attributes(r.t)
          /\ loops' = IF r.begun THEN Append(Threads(loops, r.t), r.t) ELSE Threads(loops, r.t)
          /\ ret' = r.ret
          /\ begun' = r.begun
          /\ out' = r.put
    /\ starts' = starts + 1
    /\ UNCHANGED <<appVars, libVars, intVars>>

\* transport.stop()
StopCall ==
    /\ \E o \in {IF transport.kind = "serial" THEN SerialStop(transport) ELSE TestGenStop(transport)} :
          /\ transport' = o
          /\ loops' = Threads(loops, o)
    /\ out' = IF transport.kind = "serial" THEN <<Sys("Disconnected")>> ELSE <<Sys("Sim Stopped")>>
    /\ UNCHANGED <<ret, begun, starts, appVars, libVars, intVars>>

\* one step of one of the object's threads
Step(i, now, o) ==
    /\ transport' = Attributes(o.t)
    /\ loops' = Threads([loops EXCEPT ![i] = o.t], o.t)
    /\ out' = o.put
    /\ Read(o, now)
    /\ UNCHANGED <<ret, begun, starts, q, stats, tree, txt_raw, txt_log, ser_mgr, test_gen, orphans,
                   btn_con, btn_dis, pc_ui, alive, sent, handled, device, batch, due, libVars, intVars>>

LoopStep ==
    \E i \in 1..Len(loops) : \E now \in Readings : \E o \in Loop(loops[i], now) :
        /\ Rounds(o.t) <= MaxRounds
        /\ Step(i, now, o)

NextStart ==
    \/ StartCall
    \/ StopCall
    \/ LoopStep

SpecStart == InitStart /\ [][NextStart]_vars

(***************************************************************************)
(* SpecSim: one TestGen object started once, its one loop running for as   *)
(* long as it likes, until stop() is called.                               *)
(***************************************************************************)

InitSim ==
    /\ \E r \in {TestGenStart(TestGen)} :
          /\ transport = View(r.t, TestGen)
          /\ loops = <<r.t>>
          /\ ret = r.ret
          /\ begun = r.begun
          /\ out = r.put
    /\ starts = 1
    /\ AppInit({})
    /\ LibIdle
    /\ IntIdle

\* one step of the loop
SimStep ==
    \E i \in 1..Len(loops) : \E now \in Readings : \E o \in SimLoop(loops[i], now) :
        Step(i, now, o)

NextSim ==
    \/ SimStep
    \/ StopCall

SpecSim == InitSim /\ [][NextSim]_vars

(***************************************************************************)
(* Claims about the decode library (SpecLib, SpecInt)                      *)
(***************************************************************************)

DecodeCalled == "decode" \in done

NameCalled == "get_name" \in done

ArgId == PyInt16(arg.id)

ArgInts == [i \in 1..Len(arg.data) |-> PyInt16(arg.data[i]).v]

\* every payload token is a byte
ArgBytesOk ==
    \A i \in 1..Len(arg.data) : PyInt16(arg.data[i]).ok /\ PyInt16(arg.data[i]).v \in 0..255

IsShortError(r) == r.kind = "map" /\ Len(r.sigs) = 1 /\ r.sigs[1].name = "Error"

\* C2: decode never raises: whatever the id string and the byte tokens, it
\* returns a signal mapping, the 'No Decoder' marker or an error value.
C2_DecodeNeverRaises ==
    DecodeCalled => dec.kind \in {"map", "nodecoder", "err"}

\* a fault inside a routine (every token parsed) came back as an error value
C2_Witness ==
    /\ DecodeCalled
    /\ ArgId.ok
    /\ \A i \in 1..Len(arg.data) : PyInt16(arg.data[i]).ok
    /\ dec.kind = "err"

\* the number of payload bytes each routine reads (highest offset read, plus one)
BytesRead ==
    [f \in {DECODER_MAP[n] : n \in DOMAIN DECODER_MAP} |->
        CASE f \in {"decode_inverter_multiplexed", "decode_inverter_igbt_temp", "decode_torque_command"} -> 3
          [] f = "decode_ui_voltages" -> 8
          [] f = "decode_ui_temperatures" -> 5
          [] f \in {"decode_acu_info_1", "decode_acu_info_2"} -> 0
          [] f \in {"decode_acu_precharge", "decode_vcu_connected", "decode_vcu_reply"} -> 1
          [] OTHER -> 6]

\* C3: for every registered id and every payload shorter than what its routine
\* reads, the result is a short-message error value: not signal values computed
\* from missing bytes, not an index fault.
C3_ShortPayloadIsError ==
    (/\ DecodeCalled
     /\ ArgId.ok
     /\ ArgId.v \in DOMAIN DECODER_MAP
     /\ ArgBytesOk
     /\ Len(arg.data) < BytesRead[DECODER_MAP[ArgId.v]])
        => IsShortError(dec)

\* C6: for every numeric id, get_name returns 'Unknown ID' exactly when decode
\* returns 'No Decoder' (one table: a decode routine comes with a display name).
C6_OneRegistry ==
    (DecodeCalled /\ NameCalled /\ ArgId.ok /\ ArgBytesOk)
        => ((nm = "Unknown ID") <=> (dec.kind = "nodecoder"))

\* the signed little-endian 16-bit value of two bytes
S16LE(b0, b1) == IF b0 + (256 * b1) >= 32768 THEN b0 + (256 * b1) - 65536 ELSE b0 + (256 * b1)

\* the named selectors of 0x181: 0x30, 0xEB, 0x20, 0x49, 0x4A, with name and scale divisor
MuxNamed ==
    (48 :> <<"RPM", 1>>) @@ (235 :> <<"DC Bus", 10>>) @@ (32 :> <<"Inv Current", 10>>)
        @@ (73 :> <<"Motor Temp", 1>>) @@ (74 :> <<"IGBT Temp", 1>>)

IsMuxCall == DecodeCalled /\ ArgId.ok /\ ArgId.v = 385 /\ ArgBytesOk /\ Len(arg.data) >= 3

\* C7: for id 0x181, every selector s and every payload of at least 3 bytes, the
\* result is exactly one signal over the signed little-endian 16-bit value of
\* bytes 1-2: a named selector's own name and scale (0x30 with [0x58, 0x02] is
\* RPM 600.0), any other selector 'Mux 0x..' with the raw value (0xFF with
\* [0x01, 0x00] is 'Mux 0xff': 1), never an error.
C7_MuxDispatch ==
    IsMuxCall =>
        LET sel == ArgInts[1]
            raw == S16LE(ArgInts[2], ArgInts[3])
        IN  /\ dec.kind = "map"
            /\ Len(dec.sigs) = 1
            /\ dec.sigs[1].name /= "Error"
            /\ IF sel \in DOMAIN MuxNamed
               THEN dec.sigs[1] = Sig(MuxNamed[sel][1], VFloat(raw, MuxNamed[sel][2]))
               ELSE dec.sigs[1] = Sig("Mux 0x" \o HexNat(sel), VInt(raw))
            /\ (sel = 48 /\ ArgInts[2] = 88 /\ ArgInts[3] = 2) => dec.sigs[1] = Sig("RPM", VFloat(600, 1))
            /\ (sel = 255 /\ ArgInts[2] = 1 /\ ArgInts[3] = 0) => dec.sigs[1] = Sig("Mux 0xff", VInt(1))

\* the unknown selector 0xFF with a negative 16-bit value decoded to a generic label
C7_Witness ==
    /\ IsMuxCall
    /\ ArgInts = <<255, 0, 128>>
    /\ dec = Map(<<Sig("Mux 0xff", VInt(-32768))>>)

\* C8: each extraction helper returns the value whose encoding it was given:
\* two little-endian bytes, two big-endian bytes, bytes 1-5 of a six-byte
\* payload (byte 0 arbitrary).
C8_RoundTrip ==
    iout /= NotCalled => iout.v = iarg.v

\* the most negative 40-bit value came back from under a non-zero byte 0
C8_Witness ==
    /\ iarg.f = "parse_ivt_int40"
    /\ iarg.v = Big(-(2 ^ 19), 0)
    /\ iarg.b0 = 85
    /\ iout = [kind |-> "int", v |-> Big(-(2 ^ 19), 0)]

\* the three frames of the 40-bit format scaled by 0.001 to two decimals, with their units
MilliFrames == (1313 :> <<"Current", " A">>) @@ (1314 :> <<"Volts Veh", " V">>) @@ (1315 :> <<"Volts Pack", " V">>)

\* a six-byte payload [any, 0x00, 0x00, 0x03, 0xE8, 0x00] sent to one of those frames
IsE8Call ==
    /\ DecodeCalled
    /\ ArgId.ok
    /\ ArgId.v \in DOMAIN MilliFrames
    /\ ArgBytesOk
    /\ Len(arg.data) = 6
    /\ Tail(ArgInts) = <<0, 0, 3, 232, 0>>

\* C9 as stated: that payload holds the 40-bit value 1000 and gives '1.00' and the unit
C9_Original ==
    IsE8Call =>
        /\ parse_ivt_int40(ArgInts) = Big(0, 1000)
        /\ dec = Map(<<Sig(MilliFrames[ArgId.v][1], VText("1.00" \o MilliFrames[ArgId.v][2]))>>)

\* C9 (amended): bytes 1-5 of that payload, big-endian, are the 40-bit value
\* 0x03E800 = 256000, and the result is the text '256.00' and the unit.
C9_E8Payload ==
    IsE8Call =>
        /\ parse_ivt_int40(ArgInts) = Big(0, 256000)
        /\ dec = Map(<<Sig(MilliFrames[ArgId.v][1], VText("256.00" \o MilliFrames[ArgId.v][2]))>>)

\* id 0x521 with byte 0 = 0xFF gave '256.00 A'
C9_Witness ==
    /\ IsE8Call
    /\ ArgId.v = 1313
    /\ ArgInts[1] = 255
    /\ dec = Map(<<Sig("Current", VText("256.00 A"))>>)

(***************************************************************************)
(* Claims about the application (Spec)                                     *)
(***************************************************************************)

IsData(m) == m.type = "DATA"

\* the line has fewer than two tokens: parse_frame returns before decoding
FailsToParse(line) == Len(Parts(line)) < 2

\* the line has an id token and decode gives an error value for it
FailsToDecode(line) ==
    /\ ~FailsToParse(line)
    /\ decode(Cid(Parts(line)[1]), Drop(Parts(line), 2), TRUE).kind = "err"

\* the messages the running update_loop has finished with, in order
Batch == SubSeq(handled, Len(handled) - batch + 1, Len(handled))

\* C1: a line that fails to parse or to decode ends neither the batch nor
\* the consumer: update_loop stays scheduled, and the messages it has
\* finished with, followed by those still queued, are exactly the messages
\* enqueued, in the order they were enqueued (none skipped, none twice).
C1_EveryMessageOnceInOrder ==
    /\ alive
    /\ handled \o q = sent

\* one update_loop call finished with a line decode had rejected and went on
\* to finish with a line that has too few tokens
C1_Witness ==
    /\ pc_ui = "drain"
    /\ \E i \in 1..(Len(Batch) - 1) :
          /\ IsData(Batch[i]) /\ FailsToDecode(Batch[i].line)
          /\ IsData(Batch[i + 1]) /\ FailsToParse(Batch[i + 1].line)

\* a token int(x, 16) rejects
NonHex(tok) == ~PyInt16(tok).ok

\* the line has an id token, and that token or one of the byte tokens is not hex
HasNonHexToken(line) ==
    LET parts == Parts(line)
    IN  /\ Len(parts) >= 2
        /\ \/ NonHex(Cid(parts[1]))
           \/ \E i \in 3..Len(parts) : NonHex(parts[i])

\* update_loop is about to take a line with a non-hex token from the queue
AtNonHexLine ==
    /\ pc_ui = "drain"
    /\ q /= <<>>
    /\ IsData(Head(q))
    /\ HasNonHexToken(Head(q).line)

\* C4 as stated: processing a line that has a non-hex token changes no
\* statistics entry, creates or updates no table row, writes nothing to the
\* decoded log, and raises no fault.
C4_NonHexLineDropped ==
    [][AtNonHexLine => (stats' = stats /\ tree' = tree /\ txt_log' = txt_log /\ alive')]_vars

\* the number an id written in hex denotes, if it denotes one
Denotes(cid) == PyInt16(cid)

\* C5 as stated: id tokens that denote the same frame id are one canonical
\* id, so no two statistics entries and no two table rows stand for the same
\* frame id.
C5_OneEntryPerFrameId ==
    /\ \A a, b \in DOMAIN stats :
          (Denotes(a).ok /\ Denotes(b).ok /\ Denotes(a).v = Denotes(b).v) => a = b
    /\ \A i, j \in 1..Len(tree) :
          (Denotes(tree[i].iid).ok /\ Denotes(tree[j].iid).ok
              /\ Denotes(tree[i].iid).v = Denotes(tree[j].iid).v) => i = j

\* the message is a line parse_frame counts: a DATA line with an id token
IsSighting(m) == IsData(m) /\ ~FailsToParse(m.line)

\* the places in handled of the lines counted under cid
Sightings(cid) ==
    {i \in 1..Len(handled) : IsSighting(handled[i]) /\ Cid(Parts(handled[i].line)[1]) = cid}

\* C10: whatever was pressed in between (Clear Log, Connect, Disconnect,
\* Start / Stop Sim), every id with a line processed has a statistics entry,
\* and the count of every entry is the number of lines of that id processed
\* so far: 1 after the first, one more after each later one, never reset.
C10_CountIsSightings ==
    /\ \A i \in 1..Len(handled) :
          IsSighting(handled[i]) => Cid(Parts(handled[i].line)[1]) \in DOMAIN stats
    /\ \A cid \in DOMAIN stats : stats[cid].c = Cardinality(Sightings(cid))

\* Clear Log was pressed after the second line of an id: the count is still 2
C10_Witness ==
    /\ txt_raw = <<>>
    /\ txt_log = <<>>
    /\ \E cid \in DOMAIN stats : stats[cid].c = 2

(***************************************************************************)
(* Claims about parse_frame (SpecFrame)                                    *)
(***************************************************************************)

\* update_loop is about to take a line that has an id token from the queue
AtSighting ==
    /\ pc_ui = "drain"
    /\ q /= <<>>
    /\ IsSighting(Head(q))

\* when the latest earlier line of cid was processed
LastSeen(cid) == handled[CHOOSE i \in Sightings(cid) : \A j \in Sightings(cid) : j <= i].ts

\* f"{1.0 / dt:.1f} Hz" for dt = 0.5 s, 1.0 s, 1.5 s, ... as CPython prints it
HzLabel ==
    <<"2.0 Hz", "1.0 Hz", "0.7 Hz", "0.5 Hz", "0.4 Hz", "0.3 Hz", "0.3 Hz", "0.2 Hz", "0.2 Hz", "0.2 Hz",
      "0.2 Hz", "0.2 Hz">>

\* the label the claim gives a line of cid processed at now
FreqLabel(cid, now) ==
    IF Sightings(cid) = {} \/ now - LastSeen(cid) <= 0 THEN "-" ELSE HzLabel[now - LastSeen(cid)]

\* the values of the table row of cid
RowOf(tr, cid) == tr[CHOOSE i \in 1..Len(tr) : tr[i].iid = cid].values

\* C11: when a line of id X is processed, the row of X shows "-" exactly
\* when X has no earlier line or no time has passed since X's own latest
\* line, otherwise 1 / (now - last) for X's own latest line, to one decimal
\* ("2.0 Hz" after exactly half a second), and its count is one more than
\* the number of X's earlier lines.
C11_FrequencyOfOwnLastSighting ==
    [][AtSighting =>
         \E x \in {Cid(Parts(Head(q).line)[1])} :
             /\ TreeExists(tree', x)
             /\ RowOf(tree', x)[6] = FreqLabel(x, clock')
             /\ RowOf(tree', x)[7] = Cardinality(Sightings(x)) + 1]_vars

\* a second line of 0x181 half a second after the first, with a line of
\* another id in between: count 2 and "2.0 Hz"
C11_Witness ==
    /\ Len(handled) = 3
    /\ handled[1].line = Frame181 /\ handled[2].line = Frame0181 /\ handled[3].line = Frame181
    /\ handled[2].ts > handled[1].ts
    /\ RowOf(tree, Cid(T181))[6] = "2.0 Hz"
    /\ RowOf(tree, Cid(T181))[7] = 2

\* update_loop is about to take a line with fewer than two tokens from the queue
AtShortLine ==
    /\ pc_ui = "drain"
    /\ q /= <<>>
    /\ IsData(Head(q))
    /\ FailsToParse(Head(q).line)

\* C12: processing a line with fewer than two tokens after commas and
\* labels are removed ('garbage', an empty line, only commas and labels)
\* leaves the statistics and the table rows as they were, writes nothing to
\* the decoded log and raises no fault.
C12_ShortLineLeavesNoTrace ==
    [][AtShortLine =>
         /\ stats' = stats
         /\ tree' = tree
         /\ txt_log' = txt_log
         /\ alive'
         /\ handled' = Append(handled, Head(q))]_vars

\* a line of only commas and labels was processed after two counted lines
C12_Witness ==
    /\ q = <<>>
    /\ Len(handled) = 3
    /\ handled[3].line = OnlyLabels
    /\ Len(tree) = 2
    /\ Len(txt_log) = 2

(***************************************************************************)
(* Claims about the transports in the application (Spec)                   *)
(***************************************************************************)

\* the read loop of t has been begun, has not ended and has not been told to stop
Running(t) == t /= None /\ t.running /\ t.pc /= "dead"

\* C13 as stated: whatever Connect, Disconnect and Start / Stop Sim were
\* pressed, at most one read loop is running, and every running read loop
\* belongs to a transport the UI still refers to, so that a later stop
\* reaches it.
C13_OneTransportActive ==
    /\ ~(Running(ser_mgr) /\ Running(test_gen))
    /\ \A t \in BagToSet(orphans) : ~Running(t)

\* every transport object whose read loop may still take a step
Transports == ({ser_mgr, test_gen} \ {None}) \cup BagToSet(orphans)

\* the step puts a DATA message on the queue
DataPut == Len(sent') = Len(sent) + 1 /\ IsData(sent'[Len(sent')])

\* C14 as stated: a transport whose stop() has returned enqueues no further
\* DATA message: whenever a DATA message is put, it comes from a read loop
\* that has not been told to stop.
C14_NoFrameAfterStop ==
    [][DataPut => \E t \in Transports : t.running /\ t.pc \in {"put", "emit"}]_vars

ConnectionLost == Sys("Serial Error: Connection lost")

\* the step puts the transport-error status message on the queue
LostPut == Len(sent') = Len(sent) + 1 /\ sent'[Len(sent')] = ConnectionLost

\* C20 as stated: a stop() by the caller is not reported as a failure:
\* whenever 'Serial Error: Connection lost' is put, it comes from a serial
\* read loop that nobody has stopped and whose port nobody has closed.
C20_StopIsNotAFailure ==
    [][LostPut => \E t \in Transports : t.kind = "serial" /\ t.running /\ t.open /\ t.pc = "body"]_vars

\* C16: a fault in the serial read loop puts one 'Serial Error: Connection
\* lost' message and ends that loop (it is at its while test with the flag
\* down, or gone, and puts nothing more; no loop reports twice), and the
\* consumer stays scheduled.
C16_FaultReportedOnceLoopEnds ==
    /\ alive
    /\ \A t \in Transports :
          t.kind = "serial" => /\ t.faults <= 1
                               /\ t.faults = 1 => (~t.running /\ t.pc \in {"top", "dead"})

\* the consumer has shown the error message of a port that failed while
\* open, and a later message after it
C16_Witness ==
    /\ alive
    /\ \E i \in 1..(Len(handled) - 1) : handled[i] = ConnectionLost
    /\ Sys("Disconnected") \notin {sent[i] : i \in 1..Len(sent)}

\* start() returned a success value exactly when it started a thread
StartReportsOutcome == ret /= "none" => (ret = "True" <=> begun)

\* the threads that pass the while test of the object's loop
RunningLoops == {i \in 1..Len(loops) : loops[i].running}

\* C15: for both transport classes, start() returns a success value exactly
\* when it has begun a read loop, and whatever the calls of start(), at most
\* one read loop is running on the object.
C15_StartReportsAndNeverDoubles ==
    /\ StartReportsOutcome
    /\ Cardinality(RunningLoops) <= 1

Round == transport'.rpm /= transport.rpm

\* the counter is at one of its two ends
AtEnd(rpm) == rpm = 0 \/ rpm = 6000

\* self.temp, read as a number: 600 + n stands for a double under 60 that
\* grows with n, 1201 for 60
TempBounded == transport.temp <= 1201 /\ IntTemp(transport.temp) <= 60

\* C18: in a single simulator loop the counter stays in [0, 6000] and moves
\* by 40 a round, its direction is reversed in exactly the rounds that bring
\* it to 0 or to 6000, and the temperature never decreases and never
\* exceeds 60.
C18_TriangleAndClampedRamp ==
    /\ [](transport.rpm \in 0..6000 /\ transport.rpm_dir \in {-1, 1} /\ TempBounded)
    /\ [][/\ transport'.temp >= transport.temp
          /\ Round => /\ transport'.rpm = transport.rpm + (40 * transport.rpm_dir)
                      /\ (transport'.rpm_dir = -transport.rpm_dir) <=> AtEnd(transport'.rpm)
          /\ ~Round => transport'.rpm_dir = transport.rpm_dir]_vars

\* the counter has come back to 0 after its turn at 6000, the temperature
\* is clamped, and the loop is in its next round
C18_Witness ==
    /\ loops /= <<>>
    /\ transport.running
    /\ transport.rpm = 40
    /\ transport.rpm_dir = 1
    /\ transport.temp = 1201

\* the bytes of a line's data tokens
Ints(toks) == [i \in 1..Len(toks) |-> PyInt16(toks[i]).v]

\* what parse_frame gets from decoder.decode for a line cut in parts
Decoded(parts, up) == decode(Cid(parts[1]), Drop(parts, 2), up)

\* a thread of the simulator with the three lines of its round
Emitting(u) == u.kind = "sim" /\ u.pc = "emit"

\* d is the one signal name with the value val
IsSignal(d, name, val) == d = Map(<<Sig(name, val)>>)

\* d is a decoded mapping, not an error and not 'No Decoder'
IsDecoded(d) == d.kind = "map" /\ Len(d.sigs) = 1 /\ d.sigs[1].name /= "Error"

\* C19: each of the three lines of a round of the simulator has an id and
\* data for parse_frame, and decodes to the generator's values: RPM is the
\* counter, Motor Temp is int(self.temp), and the 40-bit value of the 0x523
\* line, shown as Volts Pack, is the jittered voltage; none is an error or
\* 'No Decoder'.
C19_SimLinesDecodeToGeneratorValues ==
    \A i \in 1..Len(loops) : Emitting(loops[i]) =>
        \A up \in BOOLEAN :
        \E p \in {[k \in 1..3 |-> Parts(loops[i].msgs[k])]} :
        \E d \in {[k \in 1..3 |-> IF Len(p[k]) < 2 THEN NoDecoder ELSE Decoded(p[k], up)]} :
            /\ \A k \in 1..3 : ~FailsToParse(loops[i].msgs[k]) /\ IsDecoded(d[k])
            /\ IsSignal(d[1], "RPM", VFloat(loops[i].rpm, 1))
            /\ IsSignal(d[2], "Motor Temp", VFloat(IntTemp(loops[i].temp), 1))
            /\ d[3].sigs[1].name = "Volts Pack"
            /\ parse_ivt_int40(Ints(Drop(p[3], 2))) = Big(0, loops[i].v)

\* a round with the counter at 6000, the temperature 59 after the 580th
\* addition, and the lower voltage
C19_Witness ==
    \E i \in 1..Len(loops) :
        /\ Emitting(loops[i])
        /\ loops[i].rpm = 6000
        /\ loops[i].v = 399500
        /\ loops[i].k = 3
====
